---- MODULE Spec2Model ----
(***************************************************************************)
(* Model of the axum_auth_user storage layer (src/src/db.rs) and of the    *)
(* boundary handlers built on it (src/src/api.rs).                         *)
(*                                                                         *)
(* Every db.rs function issues exactly one SQL statement, so every         *)
(* function is one atomic action on the five relations.  The relations'    *)
(* constraints (primary keys, unique keys, foreign keys with ON DELETE     *)
(* actions, column defaults) live in ./migrations, which is not part of    *)
(* the sources at hand; they are modelled from the written design (the     *)
(* definitions under "Schema").                                            *)
(***************************************************************************)
EXTENDS Integers, Sequences, FiniteSets, TLC

VARIABLES
    users,              \* auth.users            : set of rows
    groups,             \* auth.groups           : set of rows
    user_roles,         \* auth.user_roles       : set of rows
    group_roles,        \* auth.group_roles      : set of rows
    group_memberships,  \* auth.group_memberships: rows in insertion order
    log,                \* auth.log              : rows in insertion order
    last,               \* the call that completed last: [op, arg, res, rows,
                        \* cascaded]
    before,             \* result of the call before `last` when it was the
                        \* same call (same op, same argument), else "other"
    clients             \* concurrent callers: [pc, call, res, others] per
                        \* client; `others` counts the statements of other
                        \* clients executed since the client invoked its call

vars == <<users, groups, user_roles, group_roles, group_memberships, log,
          last, before, clients>>

tables == <<users, groups, user_roles, group_roles, group_memberships, log>>

----------------------------------------------------------------------------
(* Bounds of the model *)

\* rows a grant table may hold
MaxGrants == 3
\* rows auth.group_memberships may hold
MaxMembers == 2
\* the count of other clients' statements a client keeps (it stops there)
MaxOthers == 2
\* rows auth.log may hold
MaxLog == 2

----------------------------------------------------------------------------
(* Value domains *)

\* Uuid values; UserId and GroupId both wrap a Uuid, so the two kinds of
\* identifier draw from the same values.
Uuids == {"u1", "u2"}

\* serde_json Value payloads; "null" is SQL NULL (Option::None)
Details == {"null", "d1"}

GLOBAL_SCOPE == "global"
GLOBAL_SCOPE_ID == "global"

Scopes == {GLOBAL_SCOPE, "project"}
ScopeIds == {GLOBAL_SCOPE_ID, "P7"}
RoleNames == {"admin", "editor"}
MemberRoles == {"member", "owner"}

\* Results of a call: Ok(()) or the class of the sqlx::Error the store raised.
Ok == "Ok"
UniqueViolation == "unique_violation"
ForeignKeyViolation == "foreign_key_violation"
SyntaxError == "syntax_error"

\* UserRoleRow::new / GroupRoleRow::new / GroupMembershipRow::new
UserRoleRow_new(user_id, scope, scope_id, role_name) ==
    [user_id |-> user_id, scope |-> scope, scope_id |-> scope_id, role_name |-> role_name]

GroupRoleRow_new(group_id, scope, scope_id, role_name) ==
    [group_id |-> group_id, scope |-> scope, scope_id |-> scope_id, role_name |-> role_name]

GroupMembershipRow_new(group_id, user_id, role_name) ==
    [group_id |-> group_id, user_id |-> user_id, role_name |-> role_name]

AccessRoleRow_new(user_id, role_name) ==
    [user_id |-> user_id, role_name |-> role_name]

UserRoleRows == [user_id : Uuids, scope : Scopes, scope_id : ScopeIds, role_name : RoleNames]
GroupRoleRows == [group_id : Uuids, scope : Scopes, scope_id : ScopeIds, role_name : RoleNames]
AccessRoleRows == [user_id : Uuids, role_name : RoleNames]

----------------------------------------------------------------------------
(* Text ordering (ORDER BY ... ASC on text columns) *)

\* the strings of the model in ascending byte order
TextOrder == <<"P7", "admin", "editor", "engineering", "global", "member",
               "ops", "owner", "project">>

\* the position of each string in that order
TextRanks ==
    [s \in {TextOrder[i] : i \in 1..Len(TextOrder)} |->
        CHOOSE i \in 1..Len(TextOrder) : TextOrder[i] = s]

TextRank(s) == TextRanks[s]

TextLt(a, b) == TextRank(a) < TextRank(b)

----------------------------------------------------------------------------
(* Schema: constraints of the five relations (./migrations) *)

UserExists(id) == \E u \in users : u.id = id

GroupExists(id) == \E g \in groups : g.id = id

\* users.id is the primary key
UsersPkFree(row) == ~UserExists(row.id)

\* groups.id is the primary key, groups.display_name is unique
GroupsKeysFree(row) ==
    /\ ~GroupExists(row.id)
    /\ ~\E g \in groups : g.display_name = row.display_name

\* unique (user_id, scope, scope_id, role_name): the ON CONFLICT target
UserRolesConflict(row) ==
    \E r \in user_roles :
        /\ r.user_id = row.user_id
        /\ r.scope = row.scope
        /\ r.scope_id = row.scope_id
        /\ r.role_name = row.role_name

GroupRolesConflict(row) ==
    \E r \in group_roles :
        /\ r.group_id = row.group_id
        /\ r.scope = row.scope
        /\ r.scope_id = row.scope_id
        /\ r.role_name = row.role_name

\* unique (group_id, user_id)
MembershipConflict(row) ==
    \E i \in 1..Len(group_memberships) :
        /\ group_memberships[i].group_id = row.group_id
        /\ group_memberships[i].user_id = row.user_id

\* user_roles.user_id REFERENCES users(id)
UserRolesFk(row) == UserExists(row.user_id)

\* group_roles.group_id REFERENCES groups(id)
GroupRolesFk(row) == GroupExists(row.group_id)

\* group_memberships.group_id REFERENCES groups(id), .user_id REFERENCES users(id)
MembershipFk(row) == GroupExists(row.group_id) /\ UserExists(row.user_id)

\* column default of users.active and groups.active
ActiveDefault == TRUE

MembershipNotOfUser(id, m) == m.user_id # id
MembershipNotOfGroup(id, m) == m.group_id # id

\* ON DELETE CASCADE from user_roles and group_memberships to users
UserRolesAfterUserDelete(id) == {r \in user_roles : r.user_id # id}

\* the membership rows kept when no referential action is declared
MembershipsAfterUserDelete_no_action(id) == group_memberships

MembershipsAfterUserDelete(id) ==
    SelectSeq(group_memberships, LAMBDA m : MembershipNotOfUser(id, m))

\* ON DELETE SET NULL from log to users
LogAfterUserDelete(id) ==
    [i \in 1..Len(log) |->
        IF log[i].user_id = id THEN [log[i] EXCEPT !.user_id = "null"] ELSE log[i]]

\* primary key of log: id
LogPkFree(row) == \A i \in 1..Len(log) : log[i].id # row.id

\* foreign key from log to users; a NULL user_id references nothing
LogFk(row) == row.user_id = "null" \/ UserExists(row.user_id)

\* ON DELETE CASCADE from group_roles and group_memberships to groups
GroupRolesAfterGroupDelete(id) == {r \in group_roles : r.group_id # id}

MembershipsAfterGroupDelete(id) ==
    SelectSeq(group_memberships, LAMBDA m : MembershipNotOfGroup(id, m))

----------------------------------------------------------------------------
(* Call records *)

NoCascade == [grants |-> 0, members |-> 0]

NoCall ==
    [op |-> "none", arg |-> [none |-> TRUE], res |-> Ok, rows |-> 0, cascaded |-> NoCascade]

\* A call completes: it becomes `last`, and `before` remembers the result of
\* the preceding call when that was the same call.  `rows` is the number of
\* rows the statement itself inserted, updated or deleted (the rows_affected
\* of the PgQueryResult that execute returns and the functions drop),
\* `cascaded` the numbers of grant rows and of membership rows that its
\* referential actions deleted.
CompletesCascading(op, arg, res, rows, cascaded) ==
    /\ last' = [op |-> op, arg |-> arg, res |-> res, rows |-> rows, cascaded |-> cascaded]
    /\ before' = IF last.op = op /\ last.arg = arg THEN last.res ELSE "other"

Completes(op, arg, res, rows) == CompletesCascading(op, arg, res, rows, NoCascade)

----------------------------------------------------------------------------
(* UserRow *)

\* UserRow::insert: INSERT INTO auth.users (id, username, email, details)
UserRow_insert(row) ==
    /\ IF UsersPkFree(row)
       THEN /\ users' = users \cup {[id |-> row.id, details |-> row.details,
                                     active |-> ActiveDefault]}
            /\ Completes("UserRow::insert", row, Ok, 1)
       ELSE /\ users' = users
            /\ Completes("UserRow::insert", row, UniqueViolation, 0)
    /\ UNCHANGED <<groups, user_roles, group_roles, group_memberships, log>>

\* UserRow::get: SELECT ... WHERE id = $1 LIMIT 1 (fetch_optional)
UserRow_get(user_id) == {u \in users : u.id = user_id}

\* UserRow::set_details: UPDATE auth.users SET details = $1 WHERE id = $2
UserRow_set_details(user_id, details) ==
    /\ users' = {IF u.id = user_id THEN [u EXCEPT !.details = details] ELSE u : u \in users}
    /\ Completes("UserRow::set_details", [user_id |-> user_id, details |-> details], Ok,
                 Cardinality(UserRow_get(user_id)))
    /\ UNCHANGED <<groups, user_roles, group_roles, group_memberships, log>>

\* UserRow::deactivate as a hard delete: the DELETE of delete in place of the UPDATE
UserRow_deactivate_hard(user_id) ==
    /\ users' = {u \in users : u.id # user_id}
    /\ user_roles' = UserRolesAfterUserDelete(user_id)
    /\ group_memberships' = MembershipsAfterUserDelete(user_id)
    /\ log' = LogAfterUserDelete(user_id)
    /\ Completes("UserRow::deactivate", [user_id |-> user_id], Ok,
                 Cardinality(UserRow_get(user_id)))
    /\ UNCHANGED <<groups, group_roles>>

\* UserRow::deactivate: UPDATE auth.users SET active = FALSE WHERE id = $1
UserRow_deactivate(user_id) ==
    /\ users' = {IF u.id = user_id THEN [u EXCEPT !.active = FALSE] ELSE u : u \in users}
    /\ Completes("UserRow::deactivate", [user_id |-> user_id], Ok,
                 Cardinality(UserRow_get(user_id)))
    /\ UNCHANGED <<groups, user_roles, group_roles, group_memberships, log>>

\* UserRow::delete as a soft delete: the UPDATE of deactivate in place of the DELETE
UserRow_delete_soft(user_id) ==
    /\ users' = {IF u.id = user_id THEN [u EXCEPT !.active = FALSE] ELSE u : u \in users}
    /\ Completes("UserRow::delete", [user_id |-> user_id], Ok,
                 Cardinality(UserRow_get(user_id)))
    /\ UNCHANGED <<groups, user_roles, group_roles, group_memberships, log>>

\* UserRow::delete that also deletes the log entries of the user
UserRow_delete_purging_log(user_id) ==
    /\ users' = {u \in users : u.id # user_id}
    /\ user_roles' = UserRolesAfterUserDelete(user_id)
    /\ group_memberships' = MembershipsAfterUserDelete(user_id)
    /\ log' = SelectSeq(log, LAMBDA e : e.user_id # user_id)
    /\ CompletesCascading("UserRow::delete", [user_id |-> user_id], Ok,
                          Cardinality(UserRow_get(user_id)),
                          [grants |-> Cardinality(user_roles) - Cardinality(user_roles'),
                           members |-> Len(group_memberships) - Len(group_memberships')])
    /\ UNCHANGED <<groups, group_roles>>

\* UserRow::delete: DELETE FROM auth.users WHERE id = $1, with the referential
\* actions of the relations that reference auth.users
UserRow_delete(user_id) ==
    /\ users' = {u \in users : u.id # user_id}
    /\ user_roles' = UserRolesAfterUserDelete(user_id)
    /\ group_memberships' = MembershipsAfterUserDelete(user_id)
    /\ log' = LogAfterUserDelete(user_id)
    /\ CompletesCascading("UserRow::delete", [user_id |-> user_id], Ok,
                          Cardinality(UserRow_get(user_id)),
                          [grants |-> Cardinality(user_roles) - Cardinality(user_roles'),
                           members |-> Len(group_memberships) - Len(group_memberships')])
    /\ UNCHANGED <<groups, group_roles>>

----------------------------------------------------------------------------
(* UserRoleRow *)

\* UserRoleRow::allow as a plain INSERT, without the ON CONFLICT clause
UserRoleRow_allow_plain_insert(row) ==
    /\ IF UserRolesConflict(row)
       THEN /\ user_roles' = user_roles
            /\ Completes("UserRoleRow::allow", row, UniqueViolation, 0)
       ELSE IF UserRolesFk(row)
       THEN /\ user_roles' = user_roles \cup {row}
            /\ Completes("UserRoleRow::allow", row, Ok, 1)
       ELSE /\ user_roles' = user_roles
            /\ Completes("UserRoleRow::allow", row, ForeignKeyViolation, 0)
    /\ UNCHANGED <<users, groups, group_roles, group_memberships, log>>

\* UserRoleRow::allow: INSERT INTO auth.user_roles ... ON CONFLICT (user_id,
\* scope, scope_id, role_name) DO NOTHING
UserRoleRow_allow(row) ==
    /\ IF UserRolesConflict(row)
       THEN /\ user_roles' = user_roles
            /\ Completes("UserRoleRow::allow", row, Ok, 0)
       ELSE IF UserRolesFk(row)
       THEN /\ user_roles' = user_roles \cup {row}
            /\ Completes("UserRoleRow::allow", row, Ok, 1)
       ELSE /\ user_roles' = user_roles
            /\ Completes("UserRoleRow::allow", row, ForeignKeyViolation, 0)
    /\ UNCHANGED <<users, groups, group_roles, group_memberships, log>>

\* UserRoleRow::revoke with the role_name condition left out of the WHERE clause
UserRoleRow_revoke_any_role(row) ==
    /\ user_roles' = {r \in user_roles :
                        ~(/\ r.user_id = row.user_id
                          /\ r.scope = row.scope
                          /\ r.scope_id = row.scope_id)}
    /\ Completes("UserRoleRow::revoke", row, Ok,
                 Cardinality(user_roles) - Cardinality(user_roles'))
    /\ UNCHANGED <<users, groups, group_roles, group_memberships, log>>

\* UserRoleRow::revoke: DELETE FROM auth.user_roles WHERE user_id = $1 AND
\* scope = $2 AND scope_id = $3 AND role_name = $4
UserRoleRow_revoke(row) ==
    /\ user_roles' = {r \in user_roles :
                        ~(/\ r.user_id = row.user_id
                          /\ r.scope = row.scope
                          /\ r.scope_id = row.scope_id
                          /\ r.role_name = row.role_name)}
    /\ Completes("UserRoleRow::revoke", row, Ok,
                 Cardinality(user_roles) - Cardinality(user_roles'))
    /\ UNCHANGED <<users, groups, group_roles, group_memberships, log>>

\* the count of has_role with the scope_id condition left out
UserRoleRow_count_any_scope_id(user_id, scope, scope_id, role_name) ==
    Cardinality({r \in user_roles :
                    /\ r.user_id = user_id
                    /\ r.scope = scope
                    /\ r.role_name = role_name})

\* SELECT COUNT(*) FROM auth.user_roles WHERE user_id = $1 AND scope = $2 AND
\* scope_id = $3 AND role_name = $4
UserRoleRow_count(user_id, scope, scope_id, role_name) ==
    Cardinality({r \in user_roles :
                    /\ r.user_id = user_id
                    /\ r.scope = scope
                    /\ r.scope_id = scope_id
                    /\ r.role_name = role_name})

\* UserRoleRow::has_role: Ok(count.0 > 0)
UserRoleRow_has_role(user_id, scope, scope_id, role_name) ==
    UserRoleRow_count(user_id, scope, scope_id, role_name) > 0

\* ORDER BY scope DESC, scope_id DESC, role_name DESC
RoleRowLt_descending(a, b) ==
    IF a.scope # b.scope THEN TextLt(b.scope, a.scope)
    ELSE IF a.scope_id # b.scope_id THEN TextLt(b.scope_id, a.scope_id)
    ELSE TextLt(b.role_name, a.role_name)

\* ORDER BY scope ASC, scope_id ASC, role_name ASC
RoleRowLt(a, b) ==
    IF a.scope # b.scope THEN TextLt(a.scope, b.scope)
    ELSE IF a.scope_id # b.scope_id THEN TextLt(a.scope_id, b.scope_id)
    ELSE TextLt(a.role_name, b.role_name)

\* ORDER BY role_name ASC
RoleNameLt(a, b) == TextLt(a.role_name, b.role_name)

\* the rows of S in ascending (scope, scope_id, role_name) order
SortByRoleRow(S) ==
    [i \in 1..Cardinality(S) |->
        CHOOSE r \in S : Cardinality({q \in S : RoleRowLt(q, r)}) = i - 1]

\* the rows of S in ascending role_name order
SortByRoleName(S) ==
    [i \in 1..Cardinality(S) |->
        CHOOSE r \in S : Cardinality({q \in S : RoleNameLt(q, r)}) = i - 1]

\* UserRoleRow::roles: SELECT ... WHERE user_id = $1 ORDER BY scope, scope_id, role_name
UserRoleRow_roles(user_id) ==
    SortByRoleRow({r \in user_roles : r.user_id = user_id})

\* UserRoleRow::roles_in_scope: SELECT ... WHERE user_id = $1 AND scope = $2
\* AND scope_id = $3 ORDER BY role_name
UserRoleRow_roles_in_scope(user_id, scope, scope_id) ==
    SortByRoleName({r \in user_roles :
                 /\ r.user_id = user_id
                 /\ r.scope = scope
                 /\ r.scope_id = scope_id})

----------------------------------------------------------------------------
(* AccessRoleRow: the global view on top of the scoped user_roles *)

\* the UserRoleRow an AccessRoleRow call builds
AccessRoleRow_scoped(row) ==
    [user_id |-> row.user_id, scope |-> GLOBAL_SCOPE, scope_id |-> GLOBAL_SCOPE_ID,
     role_name |-> row.role_name]

\* AccessRoleRow::allow: UserRoleRow::allow(pool, &scoped)
AccessRoleRow_allow(row) == UserRoleRow_allow(AccessRoleRow_scoped(row))

\* AccessRoleRow::revoke: UserRoleRow::revoke(pool, &scoped)
AccessRoleRow_revoke(row) == UserRoleRow_revoke(AccessRoleRow_scoped(row))

\* AccessRoleRow::has_role
AccessRoleRow_has_role(user_id, role_name) ==
    UserRoleRow_has_role(user_id, GLOBAL_SCOPE, GLOBAL_SCOPE_ID, role_name)

\* AccessRoleRow::roles reading the user's grants of every scope
AccessRoleRow_roles_every_scope(user_id) ==
    LET rows == UserRoleRow_roles(user_id)
    IN [i \in 1..Len(rows) |->
           [user_id |-> rows[i].user_id, role_name |-> rows[i].role_name]]

\* AccessRoleRow::roles: the rows of roles_in_scope mapped to (user_id, role_name)
AccessRoleRow_roles(user_id) ==
    LET rows == UserRoleRow_roles_in_scope(user_id, GLOBAL_SCOPE, GLOBAL_SCOPE_ID)
    IN [i \in 1..Len(rows) |->
           [user_id |-> rows[i].user_id, role_name |-> rows[i].role_name]]

----------------------------------------------------------------------------
(* GroupRoleRow *)

\* GroupRoleRow::allow that also grants the role to the members of the group
GroupRoleRow_allow_granting_members(row) ==
    /\ IF GroupRolesConflict(row)
       THEN /\ group_roles' = group_roles
            /\ user_roles' = user_roles
            /\ Completes("GroupRoleRow::allow", row, Ok, 0)
       ELSE IF GroupRolesFk(row)
       THEN /\ group_roles' = group_roles \cup {row}
            /\ user_roles' = user_roles \cup
                  {UserRoleRow_new(group_memberships[i].user_id, row.scope,
                                   row.scope_id, row.role_name) :
                      i \in {j \in 1..Len(group_memberships) :
                                group_memberships[j].group_id = row.group_id}}
            /\ Completes("GroupRoleRow::allow", row, Ok, 1)
       ELSE /\ group_roles' = group_roles
            /\ user_roles' = user_roles
            /\ Completes("GroupRoleRow::allow", row, ForeignKeyViolation, 0)
    /\ UNCHANGED <<users, groups, group_memberships, log>>

\* GroupRoleRow::allow: INSERT INTO auth.group_roles ... ON CONFLICT (group_id,
\* scope, scope_id, role_name) DO NOTHING
GroupRoleRow_allow(row) ==
    /\ IF GroupRolesConflict(row)
       THEN /\ group_roles' = group_roles
            /\ Completes("GroupRoleRow::allow", row, Ok, 0)
       ELSE IF GroupRolesFk(row)
       THEN /\ group_roles' = group_roles \cup {row}
            /\ Completes("GroupRoleRow::allow", row, Ok, 1)
       ELSE /\ group_roles' = group_roles
            /\ Completes("GroupRoleRow::allow", row, ForeignKeyViolation, 0)
    /\ UNCHANGED <<users, groups, user_roles, group_memberships, log>>

\* GroupRoleRow::revoke: DELETE FROM auth.group_roles WHERE group_id = $1 AND
\* scope = $2 AND scope_id = $3 AND role_name = $4
GroupRoleRow_revoke(row) ==
    /\ group_roles' = {r \in group_roles :
                         ~(/\ r.group_id = row.group_id
                           /\ r.scope = row.scope
                           /\ r.scope_id = row.scope_id
                           /\ r.role_name = row.role_name)}
    /\ Completes("GroupRoleRow::revoke", row, Ok,
                 Cardinality(group_roles) - Cardinality(group_roles'))
    /\ UNCHANGED <<users, groups, user_roles, group_memberships, log>>

\* SELECT COUNT(*) FROM auth.group_roles WHERE group_id = $1 AND scope = $2 AND
\* scope_id = $3 AND role_name = $4
GroupRoleRow_count(group_id, scope, scope_id, role_name) ==
    Cardinality({r \in group_roles :
                    /\ r.group_id = group_id
                    /\ r.scope = scope
                    /\ r.scope_id = scope_id
                    /\ r.role_name = role_name})

\* GroupRoleRow::has_role: Ok(count.0 > 0)
GroupRoleRow_has_role(group_id, scope, scope_id, role_name) ==
    GroupRoleRow_count(group_id, scope, scope_id, role_name) > 0

\* GroupRoleRow::roles
GroupRoleRow_roles(group_id) ==
    SortByRoleRow({r \in group_roles : r.group_id = group_id})

\* GroupRoleRow::roles_in_scope
GroupRoleRow_roles_in_scope(group_id, scope, scope_id) ==
    SortByRoleName({r \in group_roles :
                 /\ r.group_id = group_id
                 /\ r.scope = scope
                 /\ r.scope_id = scope_id})

----------------------------------------------------------------------------
(* GroupRow *)

\* GroupRow::insert: INSERT INTO auth.groups (id, display_name, details)
GroupRow_insert(row) ==
    /\ IF GroupsKeysFree(row)
       THEN /\ groups' = groups \cup {[id |-> row.id, display_name |-> row.display_name,
                                       details |-> row.details, active |-> ActiveDefault]}
            /\ Completes("GroupRow::insert", row, Ok, 1)
       ELSE /\ groups' = groups
            /\ Completes("GroupRow::insert", row, UniqueViolation, 0)
    /\ UNCHANGED <<users, user_roles, group_roles, group_memberships, log>>

\* GroupRow::get: SELECT ... WHERE id = $1 LIMIT 1 (fetch_optional)
GroupRow_get(group_id) == {g \in groups : g.id = group_id}

\* GroupRow::set_details: UPDATE auth.groups SET details = $1 WHERE id = $2
GroupRow_set_details(group_id, details) ==
    /\ groups' = {IF g.id = group_id THEN [g EXCEPT !.details = details] ELSE g : g \in groups}
    /\ Completes("GroupRow::set_details", [group_id |-> group_id, details |-> details], Ok,
                 Cardinality(GroupRow_get(group_id)))
    /\ UNCHANGED <<users, user_roles, group_roles, group_memberships, log>>

\* GroupRow::deactivate: UPDATE auth.groups SET active = FALSE WHERE id = $1
GroupRow_deactivate(group_id) ==
    /\ groups' = {IF g.id = group_id THEN [g EXCEPT !.active = FALSE] ELSE g : g \in groups}
    /\ Completes("GroupRow::deactivate", [group_id |-> group_id], Ok,
                 Cardinality(GroupRow_get(group_id)))
    /\ UNCHANGED <<users, user_roles, group_roles, group_memberships, log>>

\* GroupRow::delete: DELETE FROM auth.groups WHERE id = $1, with the referential
\* actions of the relations that reference auth.groups
GroupRow_delete(group_id) ==
    /\ groups' = {g \in groups : g.id # group_id}
    /\ group_roles' = GroupRolesAfterGroupDelete(group_id)
    /\ group_memberships' = MembershipsAfterGroupDelete(group_id)
    /\ CompletesCascading("GroupRow::delete", [group_id |-> group_id], Ok,
                          Cardinality(GroupRow_get(group_id)),
                          [grants |-> Cardinality(group_roles) - Cardinality(group_roles'),
                           members |-> Len(group_memberships) - Len(group_memberships')])
    /\ UNCHANGED <<users, user_roles, log>>

----------------------------------------------------------------------------
(* GroupMembershipRow *)

\* GroupMembershipRow::add_member as an upsert: ON CONFLICT (group_id, user_id)
\* DO UPDATE SET role_name = EXCLUDED.role_name
GroupMembershipRow_add_member_upsert(row) ==
    /\ IF MembershipConflict(row)
       THEN /\ group_memberships' =
                   [i \in 1..Len(group_memberships) |->
                       IF /\ group_memberships[i].group_id = row.group_id
                          /\ group_memberships[i].user_id = row.user_id
                       THEN row ELSE group_memberships[i]]
            /\ Completes("GroupMembershipRow::add_member", row, Ok, 1)
       ELSE IF MembershipFk(row)
       THEN /\ group_memberships' = Append(group_memberships, row)
            /\ Completes("GroupMembershipRow::add_member", row, Ok, 1)
       ELSE /\ group_memberships' = group_memberships
            /\ Completes("GroupMembershipRow::add_member", row, ForeignKeyViolation, 0)
    /\ UNCHANGED <<users, groups, user_roles, group_roles, log>>

\* GroupMembershipRow::add_member: INSERT INTO auth.group_memberships
\* (group_id, user_id, role_name), no ON CONFLICT clause
GroupMembershipRow_add_member(row) ==
    /\ IF MembershipConflict(row)
       THEN /\ group_memberships' = group_memberships
            /\ Completes("GroupMembershipRow::add_member", row, UniqueViolation, 0)
       ELSE IF MembershipFk(row)
       THEN /\ group_memberships' = Append(group_memberships, row)
            /\ Completes("GroupMembershipRow::add_member", row, Ok, 1)
       ELSE /\ group_memberships' = group_memberships
            /\ Completes("GroupMembershipRow::add_member", row, ForeignKeyViolation, 0)
    /\ UNCHANGED <<users, groups, user_roles, group_roles, log>>

MembershipNotOfPair(group_id, user_id, m) ==
    ~(m.group_id = group_id /\ m.user_id = user_id)

\* GroupMembershipRow::remove_member: DELETE FROM auth.group_memberships
\* WHERE group_id = $1 AND user_id = $2
GroupMembershipRow_remove_member(group_id, user_id) ==
    /\ group_memberships' =
           SelectSeq(group_memberships, LAMBDA m : MembershipNotOfPair(group_id, user_id, m))
    /\ Completes("GroupMembershipRow::remove_member",
                 [group_id |-> group_id, user_id |-> user_id], Ok, Len(group_memberships) - Len(group_memberships'))
    /\ UNCHANGED <<users, groups, user_roles, group_roles, log>>

\* GroupMembershipRow::is_member: SELECT COUNT(*) ... WHERE group_id = $1 AND
\* user_id = $2; Ok(count.0 > 0)
GroupMembershipRow_is_member(group_id, user_id) ==
    Cardinality({i \in 1..Len(group_memberships) :
                    /\ group_memberships[i].group_id = group_id
                    /\ group_memberships[i].user_id = user_id}) > 0

\* GroupMembershipRow::has_role: SELECT COUNT(*) ... WHERE group_id = $1 AND
\* user_id = $2 AND role_name = $3; Ok(count.0 > 0)
GroupMembershipRow_has_role(group_id, user_id, role_name) ==
    Cardinality({i \in 1..Len(group_memberships) :
                    /\ group_memberships[i].group_id = group_id
                    /\ group_memberships[i].user_id = user_id
                    /\ group_memberships[i].role_name = role_name}) > 0

\* page: Option<(i64, i64)> of members: None, or Some((limit, offset))
Pages ==
    {[some |-> FALSE, limit |-> 0, offset |-> 0]}
        \cup [some : {TRUE}, limit : 0..2, offset : 0..2]

\* LIMIT $2 OFFSET $3 on the rows in the order the statement yields them
Window(rows, page) ==
    IF page.some
    THEN SubSeq(rows, page.offset + 1,
                IF page.offset + page.limit < Len(rows)
                THEN page.offset + page.limit ELSE Len(rows))
    ELSE rows

\* the orders in which a SELECT without ORDER BY may yield the rows S: the
\* statement fixes none, the store yields them in the order of whatever scan
\* it picks (heap order with reused space, or the order of an index)
Arrangements(S) ==
    {rows \in [1..Cardinality(S) -> S] : \A i, j \in 1..Cardinality(S) :
                                            rows[i] = rows[j] => i = j}

\* the rows of the group in the order add_member inserted them
MembersInserted(group_id) ==
    SelectSeq(group_memberships, LAMBDA m : m.group_id = group_id)

\* GroupMembershipRow::members: SELECT ... WHERE group_id = $1 [LIMIT $2
\* OFFSET $3], without ORDER BY; the results the call may return
GroupMembershipRow_members(group_id, page) ==
    {Window(rows, page) :
        rows \in Arrangements({MembersInserted(group_id)[i] :
                                  i \in 1..Len(MembersInserted(group_id))})}

\* The order in which a SELECT statement takes its clauses.
ClauseOrder == <<"SELECT", "FROM", "JOIN", "ON", "WHERE", "ORDER BY", "LIMIT", "OFFSET">>

ClauseRank(c) == CHOOSE i \in 1..Len(ClauseOrder) : ClauseOrder[i] = c

\* The store parses a statement whose clauses come in that order (a FROM
\* clause may hold several JOIN ... ON); any other statement is a syntax error.
StatementParses(stmt) ==
    \A i \in 1..(Len(stmt) - 1) :
        \/ ClauseRank(stmt[i]) < ClauseRank(stmt[i + 1])
        \/ (stmt[i] = "ON" /\ stmt[i + 1] = "JOIN")

\* the clauses of the statement groups_for_user sends:
\* SELECT g.id, ... FROM auth.group_memberships WHERE user_id = $1
\* JOIN auth.groups g ON ... WHERE auth.groups.active = TRUE
GroupsForUserStatement == <<"SELECT", "FROM", "WHERE", "JOIN", "ON", "WHERE">>

\* the rows the join of the statement selects: the groups joined to the
\* user's memberships that are active
GroupsForUserRows(user_id) ==
    {g \in groups :
        /\ g.active = TRUE
        /\ \E i \in 1..Len(group_memberships) :
               /\ group_memberships[i].user_id = user_id
               /\ group_memberships[i].group_id = g.id}

\* GroupMembershipRow::groups_for_user: fetch_all(pool).await?
GroupMembershipRow_groups_for_user(user_id) ==
    IF StatementParses(GroupsForUserStatement)
    THEN [res |-> Ok, rows |-> GroupsForUserRows(user_id)]
    ELSE [res |-> SyntaxError, rows |-> {}]

----------------------------------------------------------------------------
(* Boundary handlers (api.rs) *)

\* self_groups_handler: groups_for_user(..).map_err(RejectReason::database),
\* then Json of the rows mapped to Group {id, name}
self_groups_handler(auth_user) ==
    LET groups_res == GroupMembershipRow_groups_for_user(auth_user)
    IN IF groups_res.res = Ok
       THEN [status |-> "200 OK",
             body |-> {[id |-> g.id, name |-> g.display_name] : g \in groups_res.rows}]
       ELSE [status |-> "RejectReason::database", body |-> {}]

----------------------------------------------------------------------------
(* Initial state: the relations as the migrations leave them, no call made *)

Clients == {"c1", "c2"}

NoRequest == [op |-> "none", arg |-> [none |-> TRUE]]

Idle == [pc |-> "idle", call |-> NoRequest, res |-> Ok, others |-> 0]

Init ==
    /\ users = {}
    /\ groups = {}
    /\ user_roles = {}
    /\ group_roles = {}
    /\ group_memberships = <<>>
    /\ log = <<>>
    /\ last = NoCall
    /\ before = "other"
    /\ clients = [c \in Clients |-> Idle]

\* a grant table takes a new row while the model's bound leaves room
GrantRoom == Cardinality(user_roles) + Cardinality(group_roles) < MaxGrants

MemberRoom == Len(group_memberships) < MaxMembers

\* rows the callers insert into auth.users and auth.groups
UserRowOf(id) == [id |-> id, details |-> "null"]

GroupRowOf(id) ==
    [id |-> id, display_name |-> IF id = "u1" THEN "engineering" ELSE "ops", details |-> "null"]

\* the rows the grant calls are made with: a base tuple, the four tuples that
\* differ from it in exactly one component, and one that differs in all
GrantTuples ==
    {<<"u1", GLOBAL_SCOPE, GLOBAL_SCOPE_ID, "admin">>,
     <<"u2", GLOBAL_SCOPE, GLOBAL_SCOPE_ID, "admin">>,
     <<"u1", "project", GLOBAL_SCOPE_ID, "admin">>,
     <<"u1", GLOBAL_SCOPE, "P7", "admin">>,
     <<"u1", GLOBAL_SCOPE, GLOBAL_SCOPE_ID, "editor">>,
     <<"u2", "project", "P7", "editor">>}

UserGrantInputs == {UserRoleRow_new(t[1], t[2], t[3], t[4]) : t \in GrantTuples}

GroupGrantInputs == {GroupRoleRow_new(t[1], t[2], t[3], t[4]) : t \in GrantTuples}

\* a single caller: no concurrent client moves
Alone(A) == A /\ UNCHANGED clients

----------------------------------------------------------------------------
(* The grant engine: users and groups come and go, grants are made and      *)
(* revoked directly and through the global view, one call at a time.        *)

NextGrants ==
    \/ \E id \in Uuids : Alone(UserRow_insert(UserRowOf(id)))
    \/ \E id \in Uuids : Alone(UserRow_delete(id))
    \/ \E id \in Uuids : Alone(GroupRow_insert(GroupRowOf(id)))
    \/ \E id \in Uuids : Alone(GroupRow_delete(id))
    \/ \E row \in UserGrantInputs :
          (UserRolesConflict(row) \/ GrantRoom) /\ Alone(UserRoleRow_allow(row))
    \/ \E row \in UserGrantInputs : Alone(UserRoleRow_revoke(row))
    \/ \E row \in AccessRoleRows :
          (UserRolesConflict(AccessRoleRow_scoped(row)) \/ GrantRoom)
          /\ Alone(AccessRoleRow_allow(row))
    \/ \E row \in AccessRoleRows : Alone(AccessRoleRow_revoke(row))
    \/ \E row \in GroupGrantInputs :
          (GroupRolesConflict(row) \/ GrantRoom) /\ Alone(GroupRoleRow_allow(row))
    \/ \E row \in GroupGrantInputs : Alone(GroupRoleRow_revoke(row))

SpecGrants == Init /\ [][NextGrants]_vars

----------------------------------------------------------------------------
(* The stores and the membership relation: users and groups are created,    *)
(* deactivated (groups) and deleted, members are added and removed, and     *)
(* one scoped grant per user and per group is made and revoked.             *)

StoreUserGrants == {UserRoleRow_new(u, "project", "P7", "editor") : u \in Uuids}

StoreGroupGrants == {GroupRoleRow_new(g, "project", "P7", "editor") : g \in Uuids}

\* the memberships add_member is called with: every (group, user) pair with
\* the label "member", and one pair with the other label as well
StoreMemberships ==
    {GroupMembershipRow_new(g, u, "member") : g \in Uuids, u \in Uuids}
        \cup {GroupMembershipRow_new("u1", "u1", "owner")}

NextStore ==
    \/ \E id \in Uuids : Alone(UserRow_insert(UserRowOf(id)))
    \/ \E id \in Uuids : Alone(UserRow_delete(id))
    \/ \E id \in Uuids : Alone(GroupRow_insert(GroupRowOf(id)))
    \/ \E id \in Uuids : Alone(GroupRow_deactivate(id))
    \/ \E id \in Uuids : Alone(GroupRow_delete(id))
    \/ \E row \in StoreMemberships :
          (MembershipConflict(row) \/ MemberRoom)
          /\ Alone(GroupMembershipRow_add_member(row))
    \/ \E g \in Uuids, u \in Uuids : Alone(GroupMembershipRow_remove_member(g, u))
    \/ \E row \in StoreUserGrants :
          (UserRolesConflict(row) \/ GrantRoom) /\ Alone(UserRoleRow_allow(row))
    \/ \E row \in StoreGroupGrants :
          (GroupRolesConflict(row) \/ GrantRoom) /\ Alone(GroupRoleRow_allow(row))

SpecStore == Init /\ [][NextStore]_vars

----------------------------------------------------------------------------
(* Every mutating call of the storage layer on one user and one group that  *)
(* share a Uuid value.                                                      *)

FrameId == "u1"

FrameScopes == {<<GLOBAL_SCOPE, GLOBAL_SCOPE_ID, "admin">>, <<"project", "P7", "editor">>}

FrameUserGrants == {UserRoleRow_new(FrameId, t[1], t[2], t[3]) : t \in FrameScopes}

FrameGroupGrants == {GroupRoleRow_new(FrameId, t[1], t[2], t[3]) : t \in FrameScopes}

NextFrame ==
    \/ Alone(UserRow_insert(UserRowOf(FrameId)))
    \/ \E d \in Details : Alone(UserRow_set_details(FrameId, d))
    \/ Alone(UserRow_deactivate(FrameId))
    \/ Alone(UserRow_delete(FrameId))
    \/ Alone(GroupRow_insert(GroupRowOf(FrameId)))
    \/ \E d \in Details : Alone(GroupRow_set_details(FrameId, d))
    \/ Alone(GroupRow_deactivate(FrameId))
    \/ Alone(GroupRow_delete(FrameId))
    \/ \E r \in MemberRoles :
          Alone(GroupMembershipRow_add_member(GroupMembershipRow_new(FrameId, FrameId, r)))
    \/ Alone(GroupMembershipRow_remove_member(FrameId, FrameId))
    \/ \E row \in FrameUserGrants : Alone(UserRoleRow_allow(row))
    \/ \E row \in FrameUserGrants : Alone(UserRoleRow_revoke(row))
    \/ \E row \in FrameGroupGrants : Alone(GroupRoleRow_allow(row))
    \/ \E row \in FrameGroupGrants : Alone(GroupRoleRow_revoke(row))

SpecFrame == Init /\ [][NextFrame]_vars

----------------------------------------------------------------------------
(* Concurrent callers.  Each request runs on its own task against the pool: *)
(* a client invokes a call, the store executes the call's one statement     *)
(* atomically at some later point, and the client receives the result.      *)
(* Calls of different clients overlap in every order.                       *)

ConcId == "u1"

ConcUserGrant == UserRoleRow_new(ConcId, "project", "P7", "editor")

ConcGroupGrant == GroupRoleRow_new(ConcId, "project", "P7", "editor")

ConcMembership == GroupMembershipRow_new(ConcId, ConcId, "member")

ConcCalls ==
    {[op |-> "UserRow::insert", arg |-> UserRowOf(ConcId)],
     [op |-> "UserRow::delete", arg |-> [user_id |-> ConcId]],
     [op |-> "GroupRow::insert", arg |-> GroupRowOf(ConcId)],
     [op |-> "GroupRow::delete", arg |-> [group_id |-> ConcId]],
     [op |-> "UserRoleRow::allow", arg |-> ConcUserGrant],
     [op |-> "UserRoleRow::revoke", arg |-> ConcUserGrant],
     [op |-> "GroupRoleRow::allow", arg |-> ConcGroupGrant],
     [op |-> "GroupMembershipRow::add_member", arg |-> ConcMembership]}

\* the statement a call sends to the store
Statement(call) ==
    CASE call.op = "UserRow::insert" -> UserRow_insert(call.arg)
      [] call.op = "UserRow::delete" -> UserRow_delete(call.arg.user_id)
      [] call.op = "GroupRow::insert" -> GroupRow_insert(call.arg)
      [] call.op = "GroupRow::delete" -> GroupRow_delete(call.arg.group_id)
      [] call.op = "UserRoleRow::allow" -> UserRoleRow_allow(call.arg)
      [] call.op = "UserRoleRow::revoke" -> UserRoleRow_revoke(call.arg)
      [] call.op = "GroupRoleRow::allow" -> GroupRoleRow_allow(call.arg)
      [] call.op = "GroupMembershipRow::add_member" ->
             GroupMembershipRow_add_member(call.arg)

\* a client starts a call
Invoke(c, call) ==
    /\ clients[c].pc = "idle"
    /\ clients' = [clients EXCEPT
                       ![c] = [pc |-> "pending", call |-> call, res |-> Ok, others |-> 0]]
    /\ UNCHANGED <<tables, last, before>>

\* the store executes the statement of a pending call
Execute(c) ==
    /\ clients[c].pc = "pending"
    /\ Statement(clients[c].call)
    /\ clients' =
           [d \in Clients |->
               IF d = c
               THEN [clients[d] EXCEPT !.pc = "done", !.res = last'.res]
               ELSE IF clients[d].pc # "idle" /\ clients[d].others < MaxOthers
               THEN [clients[d] EXCEPT !.others = @ + 1]
               ELSE clients[d]]

\* the client takes the result; it is free for its next call
Return(c) ==
    /\ clients[c].pc = "done"
    /\ clients' = [clients EXCEPT ![c] = Idle]
    /\ UNCHANGED <<tables, last, before>>

NextConc ==
    \/ \E c \in Clients, call \in ConcCalls : Invoke(c, call)
    \/ \E c \in Clients : Execute(c)
    \/ \E c \in Clients : Return(c)

SpecConc == Init /\ [][NextConc]_vars

----------------------------------------------------------------------------
(* LogRow and the calls on the user it is attributed to *)

\* LogRow::new: a generated id, Some(user_id), the action, the time of the call
LogRow_new(id, user_id, action, timestamp) ==
    [id |-> id, user_id |-> user_id, action |-> action, timestamp |-> timestamp]

\* LogRow::insert: INSERT INTO auth.log (id, user_id, action, timestamp)
LogRow_insert(row) ==
    /\ IF ~LogPkFree(row)
       THEN /\ log' = log
            /\ Completes("LogRow::insert", row, UniqueViolation, 0)
       ELSE IF LogFk(row)
       THEN /\ log' = Append(log, row)
            /\ Completes("LogRow::insert", row, Ok, 1)
       ELSE /\ log' = log
            /\ Completes("LogRow::insert", row, ForeignKeyViolation, 0)
    /\ UNCHANGED <<users, groups, user_roles, group_roles, group_memberships>>

LogRoom == Len(log) < MaxLog

\* the entries LogRow::insert is called with: each user with each of two
\* generated ids (Uuid::new_v4() may repeat a value), the two ids differing
\* in action payload and in timestamp
LogInputs ==
    {LogRow_new("e1", u, "login", "t1") : u \in Uuids}
        \cup {LogRow_new("e2", u, "logout", "t2") : u \in Uuids}

LogUserGrant(id) == UserRoleRow_new(id, GLOBAL_SCOPE, GLOBAL_SCOPE_ID, "admin")

LogGroupId == "u1"

NextLog ==
    \/ \E id \in Uuids : Alone(UserRow_insert(UserRowOf(id)))
    \/ \E id \in Uuids : Alone(UserRow_set_details(id, "d1"))
    \/ \E id \in Uuids : Alone(UserRow_deactivate(id))
    \/ \E id \in Uuids : Alone(UserRow_delete(id))
    \/ \E row \in LogInputs :
          (~LogPkFree(row) \/ LogRoom) /\ Alone(LogRow_insert(row))
    \/ \E id \in Uuids :
          (UserRolesConflict(LogUserGrant(id)) \/ GrantRoom)
          /\ Alone(UserRoleRow_allow(LogUserGrant(id)))
    \/ \E id \in Uuids : Alone(UserRoleRow_revoke(LogUserGrant(id)))
    \/ Alone(GroupRow_insert(GroupRowOf(LogGroupId)))
    \/ Alone(GroupRow_delete(LogGroupId))
    \/ \E u \in Uuids :
          (MembershipConflict(GroupMembershipRow_new(LogGroupId, u, "member")) \/ MemberRoom)
          /\ Alone(GroupMembershipRow_add_member(GroupMembershipRow_new(LogGroupId, u, "member")))
    \/ \E u \in Uuids : Alone(GroupMembershipRow_remove_member(LogGroupId, u))

SpecLog == Init /\ [][NextLog]_vars

----------------------------------------------------------------------------
(* The leave-group handler of the boundary layer *)

\* the forms of text that Uuid::parse_str reads as a Uuid
ParsedForms == {"hyphenated", "urn"}

\* the group_id texts of LeaveGroupContent: the form of the text, and the
\* Uuid value its hexadecimal digits spell
GroupIdTexts == [form : ParsedForms \cup {"truncated"}, digits : Uuids]

\* uuid::Uuid::parse_str(&payload.group_id)
Uuid_parse_str(text) ==
    IF text.form \in ParsedForms
    THEN [ok |-> TRUE, value |-> text.digits]
    ELSE [ok |-> FALSE, value |-> "none"]

\* RejectReason::bad_request("Invalid group ID")
BadRequest == "bad_request"

\* StatusCode::NO_CONTENT
NoContent == "no_content"

\* the request a client made, and the response the handler gave it
Responds(c, auth_user, text, response) ==
    clients' = [clients EXCEPT ![c] =
                   [pc |-> "done",
                    call |-> [op |-> "self_leave_group_handler",
                              arg |-> [auth_user |-> auth_user, group_id |-> text]],
                    res |-> response,
                    others |-> 0]]

\* self_leave_group_handler that passes over a text that does not parse
self_leave_group_handler_lenient(c, auth_user, text) ==
    /\ clients[c].pc = "idle"
    /\ IF Uuid_parse_str(text).ok
       THEN GroupMembershipRow_remove_member(Uuid_parse_str(text).value, auth_user)
       ELSE UNCHANGED <<tables, last, before>>
    /\ Responds(c, auth_user, text, NoContent)

\* self_leave_group_handler: parse the group id (bad_request when it does
\* not parse), remove_member(group_id, auth_user.id()), NO_CONTENT
self_leave_group_handler(c, auth_user, text) ==
    /\ clients[c].pc = "idle"
    /\ IF Uuid_parse_str(text).ok
       THEN /\ GroupMembershipRow_remove_member(Uuid_parse_str(text).value, auth_user)
            /\ Responds(c, auth_user, text, NoContent)
       ELSE /\ UNCHANGED <<tables, last, before>>
            /\ Responds(c, auth_user, text, BadRequest)

\* the client that calls the boundary layer
ApiClient == "c1"

NextApi ==
    \/ \E id \in Uuids : Alone(UserRow_insert(UserRowOf(id)))
    \/ \E id \in Uuids : Alone(GroupRow_insert(GroupRowOf(id)))
    \/ \E row \in StoreMemberships :
          (MembershipConflict(row) \/ MemberRoom)
          /\ Alone(GroupMembershipRow_add_member(row))
    \/ \E u \in Uuids, text \in GroupIdTexts : self_leave_group_handler(ApiClient, u, text)
    \/ Return(ApiClient)

SpecApi == Init /\ [][NextApi]_vars

----------------------------------------------------------------------------
(* Claims about the grant engine, checked under SpecGrants *)

\* the last two calls were the same call `op` with the same argument
CalledTwice(op) == last.op = op /\ before # "other"

UserHasRow(row) ==
    UserRoleRow_has_role(row.user_id, row.scope, row.scope_id, row.role_name)

GroupHasRow(row) ==
    GroupRoleRow_has_role(row.group_id, row.scope, row.scope_id, row.role_name)

UserRowCount(row) ==
    UserRoleRow_count(row.user_id, row.scope, row.scope_id, row.role_name)

GroupRowCount(row) ==
    GroupRoleRow_count(row.group_id, row.scope, row.scope_id, row.role_name)

\* C1 as stated: for every tuple, of a user or of a group, allow followed by
\* allow of the same tuple succeeds both times, leaves has_role true and leaves
\* exactly one row for the tuple.
C1_AllowTwiceEveryTuple ==
    /\ CalledTwice("UserRoleRow::allow") =>
          /\ before = Ok
          /\ last.res = Ok
          /\ UserHasRow(last.arg)
          /\ UserRowCount(last.arg) = 1
    /\ CalledTwice("GroupRoleRow::allow") =>
          /\ before = Ok
          /\ last.res = Ok
          /\ GroupHasRow(last.arg)
          /\ GroupRowCount(last.arg) = 1

\* C1 amended: for every tuple whose identifier names an existing user (for a
\* user grant) or an existing group (for a group grant), allow followed by
\* allow of the same tuple succeeds both times, leaves has_role true and
\* leaves exactly one row for the tuple.
C1_AllowTwiceExistingOwner ==
    /\ (CalledTwice("UserRoleRow::allow") /\ UserExists(last.arg.user_id)) =>
          /\ before = Ok
          /\ last.res = Ok
          /\ UserHasRow(last.arg)
          /\ UserRowCount(last.arg) = 1
    /\ (CalledTwice("GroupRoleRow::allow") /\ GroupExists(last.arg.group_id)) =>
          /\ before = Ok
          /\ last.res = Ok
          /\ GroupHasRow(last.arg)
          /\ GroupRowCount(last.arg) = 1

\* a group grant was allowed twice in a row while a user grant made by allow
\* is in place
C1_Witness ==
    /\ CalledTwice("GroupRoleRow::allow")
    /\ GroupExists(last.arg.group_id)
    /\ before = Ok
    /\ last.res = Ok
    /\ \E row \in user_roles : UserRowCount(row) = 1

\* C2: revoke of a tuple that is not granted when the call is made returns Ok,
\* leaves has_role false for the tuple and leaves the grant table as it was
\* (user grants and group grants).
C2_RevokeUngranted ==
    [][/\ (last'.op = "UserRoleRow::revoke" /\ ~UserRolesConflict(last'.arg)) =>
            /\ last'.res = Ok
            /\ ~(UserHasRow(last.arg))'
            /\ user_roles' = user_roles
       /\ (last'.op = "GroupRoleRow::revoke" /\ ~GroupRolesConflict(last'.arg)) =>
            /\ last'.res = Ok
            /\ ~(GroupHasRow(last.arg))'
            /\ group_roles' = group_roles]_vars

\* the same tuple was revoked twice in a row (the second time it was not
\* granted) while the table holds other grants
C2_Witness ==
    /\ CalledTwice("UserRoleRow::revoke")
    /\ last.res = Ok
    /\ ~UserHasRow(last.arg)
    /\ user_roles # {}

\* C3: in every reachable state has_role(id, scope, scope_id, role) is true
\* exactly when the grant table holds a row with these four values (user
\* grants and group grants); a row that differs in a component does not count.
C3_HasRoleIffRow ==
    /\ \A row \in UserRoleRows : UserHasRow(row) <=> row \in user_roles
    /\ \A row \in GroupRoleRows : GroupHasRow(row) <=> row \in group_roles

\* after a delete, the table holds the three rows that differ from
\* (u1, global, global, admin) in one component each, and has_role is false
\* for that tuple
C3_Witness ==
    /\ last.op = "UserRow::delete"
    /\ user_roles = {UserRoleRow_new("u1", "project", "global", "admin"),
                     UserRoleRow_new("u1", "global", "P7", "admin"),
                     UserRoleRow_new("u1", "global", "global", "editor")}
    /\ ~UserRoleRow_has_role("u1", "global", "global", "admin")

\* the role names of a sequence of rows, in order
NamesOf(rows) == [i \in 1..Len(rows) |-> rows[i].role_name]

\* C4: the global view and the scoped calls with scope "global", scope id
\* "global" are the same: roles(u) and roles_in_scope(u, "global", "global")
\* hold the same role names in the same order after every call, a grant made
\* through either path is seen through the other, and a revoke made through
\* either path is seen through the other.
C4_GlobalViewIsScoped ==
    /\ [](\A u \in Uuids :
            /\ NamesOf(AccessRoleRow_roles(u)) =
                   NamesOf(UserRoleRow_roles_in_scope(u, "global", "global"))
            /\ \A r \in RoleNames :
                   AccessRoleRow_has_role(u, r) =
                       UserRoleRow_has_role(u, "global", "global", r))
    /\ [][\A row \in AccessRoleRows :
            /\ (/\ last'.op = "UserRoleRow::allow"
                /\ last'.res = Ok
                /\ AccessRoleRow_allow(row)) =>
                   UserRoleRow_has_role(row.user_id, "global", "global", row.role_name)'
            /\ (/\ last'.op = "UserRoleRow::revoke"
                /\ AccessRoleRow_revoke(row)) =>
                   ~UserRoleRow_has_role(row.user_id, "global", "global", row.role_name)'
            /\ (/\ last'.op = "UserRoleRow::allow"
                /\ last'.res = Ok
                /\ UserRoleRow_allow(UserRoleRow_new(row.user_id, "global", "global",
                                                      row.role_name))) =>
                   AccessRoleRow_has_role(row.user_id, row.role_name)'
            /\ (/\ last'.op = "UserRoleRow::revoke"
                /\ UserRoleRow_revoke(UserRoleRow_new(row.user_id, "global", "global",
                                                       row.role_name))) =>
                   ~AccessRoleRow_has_role(row.user_id, row.role_name)']_vars

\* u1 holds both global roles, so the view lists two names, and the last
\* call granted one of them
C4_Witness ==
    /\ NamesOf(AccessRoleRow_roles("u1")) = <<"admin", "editor">>
    /\ last.op = "UserRoleRow::allow"
    /\ last.res = Ok
    /\ last.arg.scope = "global"
    /\ last.arg.scope_id = "global"

----------------------------------------------------------------------------
(* Claims about the stores and the membership relation *)

\* C5: after the hard delete of a user, the user is a member of no group,
\* has_role is false for every tuple of the user, and no membership row and no
\* grant row references the user; after the hard delete of a group, the group
\* has no member, has_role is false for every tuple of the group, and no
\* membership row and no group grant row references the group.
C5_DeleteCascades ==
    /\ last.op = "UserRow::delete" =>
          /\ last.res = Ok
          /\ UserRow_get(last.arg.user_id) = {}
          /\ \A g \in Uuids : ~GroupMembershipRow_is_member(g, last.arg.user_id)
          /\ \A row \in UserRoleRows : row.user_id = last.arg.user_id => ~UserHasRow(row)
          /\ \A i \in 1..Len(group_memberships) :
                 group_memberships[i].user_id # last.arg.user_id
          /\ \A row \in user_roles : row.user_id # last.arg.user_id
    /\ last.op = "GroupRow::delete" =>
          /\ last.res = Ok
          /\ GroupRow_get(last.arg.group_id) = {}
          /\ \A u \in Uuids : ~GroupMembershipRow_is_member(last.arg.group_id, u)
          /\ \A row \in GroupRoleRows : row.group_id = last.arg.group_id => ~GroupHasRow(row)
          /\ \A i \in 1..Len(group_memberships) :
                 group_memberships[i].group_id # last.arg.group_id
          /\ \A row \in group_roles : row.group_id # last.arg.group_id

\* a user that held a membership and a scoped grant was deleted, and the
\* group it was a member of is still there
C5_Witness ==
    /\ last.op = "UserRow::delete"
    /\ last.rows = 1
    /\ last.cascaded.members >= 1
    /\ last.cascaded.grants >= 1
    /\ groups # {}

FrameCalls ==
    {"GroupMembershipRow::add_member", "GroupMembershipRow::remove_member",
     "UserRow::deactivate", "GroupRow::deactivate",
     "UserRow::set_details", "GroupRow::set_details"}

\* C8: a user grant row appears only by UserRoleRow::allow and disappears only
\* by UserRoleRow::revoke or by the delete of its user; a group grant row
\* appears only by GroupRoleRow::allow and disappears only by
\* GroupRoleRow::revoke or by the delete of its group; add_member,
\* remove_member, deactivate and set_details leave both grant tables as they
\* were; after remove_member(G, U) is_member(G, U) is false and has_role of
\* every user tuple is what it was.
C8_GrantsFrame ==
    [][/\ user_roles' \ user_roles # {} => last'.op = "UserRoleRow::allow"
       /\ user_roles \ user_roles' # {} =>
            \/ last'.op = "UserRoleRow::revoke"
            \/ /\ last'.op = "UserRow::delete"
               /\ \A row \in user_roles \ user_roles' : row.user_id = last'.arg.user_id
       /\ group_roles' \ group_roles # {} => last'.op = "GroupRoleRow::allow"
       /\ group_roles \ group_roles' # {} =>
            \/ last'.op = "GroupRoleRow::revoke"
            \/ /\ last'.op = "GroupRow::delete"
               /\ \A row \in group_roles \ group_roles' : row.group_id = last'.arg.group_id
       /\ last'.op \in FrameCalls =>
            /\ user_roles' = user_roles
            /\ group_roles' = group_roles
       /\ last'.op = "GroupMembershipRow::remove_member" =>
            /\ ~(GroupMembershipRow_is_member(last.arg.group_id, last.arg.user_id))'
            /\ \A row \in UserRoleRows : (UserHasRow(row))' = UserHasRow(row)]_vars

\* remove_member removed the membership of a user that holds the grant
\* (project, P7, editor): the user is no member and still has the role
C8_Witness ==
    /\ last.op = "GroupMembershipRow::remove_member"
    /\ last.rows = 1
    /\ ~GroupMembershipRow_is_member(last.arg.group_id, last.arg.user_id)
    /\ UserRoleRow_has_role(last.arg.user_id, "project", "P7", "editor")

\* at most one membership row per (group, user) pair
MembershipPairsUnique ==
    \A i, j \in 1..Len(group_memberships) :
        (/\ group_memberships[i].group_id = group_memberships[j].group_id
         /\ group_memberships[i].user_id = group_memberships[j].user_id) => i = j

\* C9: add_member on a (group, user) pair that has a membership row fails with
\* the unique violation (Conflict) and leaves the membership rows, the role
\* label of the existing row included, as they were; in every state there is
\* at most one membership row per (group, user) pair.
C9_AddMemberConflict ==
    /\ [][(/\ last'.op = "GroupMembershipRow::add_member"
            /\ GroupMembershipRow_is_member(last'.arg.group_id, last'.arg.user_id)) =>
             /\ last'.res = UniqueViolation
             /\ group_memberships' = group_memberships]_vars
    /\ []MembershipPairsUnique

\* add_member with another role label was refused for a pair whose existing
\* row keeps its label
C9_Witness ==
    /\ last.op = "GroupMembershipRow::add_member"
    /\ last.res = UniqueViolation
    /\ GroupMembershipRow_is_member(last.arg.group_id, last.arg.user_id)
    /\ ~GroupMembershipRow_has_role(last.arg.group_id, last.arg.user_id, last.arg.role_name)

\* the ids of the active groups that have a membership row for the user
ActiveGroupsOf(user_id) ==
    {g.id : g \in {h \in groups : h.active /\ GroupMembershipRow_is_member(h.id, user_id)}}

\* C10: groups_for_user(U) returns exactly the groups that have a membership
\* row for U and are active; after deactivate(G) no member's groups_for_user
\* holds G, while is_member(G, U) is still true for the members.
C10_GroupsForUserActive ==
    \A u \in Uuids :
        (\E g \in Uuids : GroupMembershipRow_is_member(g, u)) =>
            /\ GroupMembershipRow_groups_for_user(u).res = Ok
            /\ {g.id : g \in GroupMembershipRow_groups_for_user(u).rows} = ActiveGroupsOf(u)
            /\ self_groups_handler(u).status = "200 OK"

----------------------------------------------------------------------------
(* Claims about concurrent calls, checked under SpecConc *)

\* both clients have executed the same call `op` and neither has returned:
\* the two calls overlapped
BothDone(op) ==
    /\ clients["c1"].pc = "done"
    /\ clients["c2"].pc = "done"
    /\ clients["c1"].call.op = op
    /\ clients["c2"].call = clients["c1"].call

\* since the earlier of the two calls was invoked, no statement but those of
\* the two calls was executed
OnlyTheTwo == \A c \in Clients : clients[c].others <= 1

BothOk == clients["c1"].res = Ok /\ clients["c2"].res = Ok

\* C6 as stated: two overlapping allow calls for the same tuple, with no
\* other statement executed meanwhile, both return Ok and leave exactly one
\* row for it; two overlapping revoke calls for the same tuple both return
\* Ok and leave no row for it.
C6_ConcurrentSameTuple ==
    /\ (BothDone("UserRoleRow::allow") /\ OnlyTheTwo) =>
          BothOk /\ UserRowCount(clients["c1"].call.arg) = 1
    /\ BothDone("UserRoleRow::revoke") =>
          BothOk /\ UserRowCount(clients["c1"].call.arg) = 0

\* C6 amended: two overlapping allow calls for the same tuple of an existing
\* user, with no other statement executed meanwhile, both return Ok and leave
\* exactly one row for it; two overlapping revoke calls for the same
\* tuple both return Ok and leave no row for it (whatever else executes
\* between the two).
C6_ConcurrentSameTupleExistingUser ==
    /\ (/\ BothDone("UserRoleRow::allow")
        /\ OnlyTheTwo
        /\ UserExists(clients["c1"].call.arg.user_id)) =>
          BothOk /\ UserRowCount(clients["c1"].call.arg) = 1
    /\ BothDone("UserRoleRow::revoke") =>
          BothOk /\ UserRowCount(clients["c1"].call.arg) = 0

\* two overlapping allow calls for the same tuple have both executed: the
\* second one found the row of the first (it inserted no row)
C6_Witness ==
    /\ BothDone("UserRoleRow::allow")
    /\ OnlyTheTwo
    /\ BothOk
    /\ last.op = "UserRoleRow::allow"
    /\ last.rows = 0
    /\ UserRowCount(clients["c1"].call.arg) = 1

\* every membership row and every grant row references a user or group row
NoOrphans ==
    /\ \A i \in 1..Len(group_memberships) :
          /\ UserRow_get(group_memberships[i].user_id) # {}
          /\ GroupRow_get(group_memberships[i].group_id) # {}
    /\ \A row \in user_roles : UserRow_get(row.user_id) # {}
    /\ \A row \in group_roles : GroupRow_get(row.group_id) # {}

\* C7: while deletes of a user or group overlap with add_member and allow
\* calls that reference it, in every interleaving every membership row and
\* every grant row references a user or group that exists.
C7_NoOrphans == NoOrphans

\* a delete of the user and an add_member for the user overlapped: the
\* add_member executed first and succeeded, the delete then removed its row
C7_Witness ==
    /\ clients["c1"].pc = "done"
    /\ clients["c1"].call.op = "UserRow::delete"
    /\ clients["c2"].pc = "done"
    /\ clients["c2"].call.op = "GroupMembershipRow::add_member"
    /\ clients["c2"].res = Ok
    /\ OnlyTheTwo
    /\ last.op = "UserRow::delete"
    /\ last.cascaded.members = 1
    /\ group_memberships = <<>>

----------------------------------------------------------------------------
(* Claims about the listings *)

\* seq holds exactly the rows of S, each once
ListsExactly(seq, S) ==
    /\ Len(seq) = Cardinality(S)
    /\ {seq[i] : i \in 1..Len(seq)} = S

\* each row of seq is followed by a row that is greater in (scope, scope_id,
\* role_name)
AscendingByScope(seq) ==
    \A i \in 1..(Len(seq) - 1) :
        \/ TextLt(seq[i].scope, seq[i + 1].scope)
        \/ /\ seq[i].scope = seq[i + 1].scope
           /\ TextLt(seq[i].scope_id, seq[i + 1].scope_id)
        \/ /\ seq[i].scope = seq[i + 1].scope
           /\ seq[i].scope_id = seq[i + 1].scope_id
           /\ TextLt(seq[i].role_name, seq[i + 1].role_name)

\* each row of seq is followed by a row with a greater role_name
AscendingByRoleName(seq) ==
    \A i \in 1..(Len(seq) - 1) : TextLt(seq[i].role_name, seq[i + 1].role_name)

\* UserRoleRow::roles and UserRoleRow::roles_in_scope, for every identifier
UserListingsSorted ==
    \A id \in Uuids :
        /\ ListsExactly(UserRoleRow_roles(id), {r \in user_roles : r.user_id = id})
        /\ AscendingByScope(UserRoleRow_roles(id))
        /\ \A scope \in Scopes, scope_id \in ScopeIds :
              /\ ListsExactly(UserRoleRow_roles_in_scope(id, scope, scope_id),
                              {r \in user_roles : /\ r.user_id = id
                                             /\ r.scope = scope
                                             /\ r.scope_id = scope_id})
              /\ AscendingByRoleName(UserRoleRow_roles_in_scope(id, scope, scope_id))

\* GroupRoleRow::roles and GroupRoleRow::roles_in_scope, for every identifier
GroupListingsSorted ==
    \A id \in Uuids :
        /\ ListsExactly(GroupRoleRow_roles(id), {r \in group_roles : r.group_id = id})
        /\ AscendingByScope(GroupRoleRow_roles(id))
        /\ \A scope \in Scopes, scope_id \in ScopeIds :
              /\ ListsExactly(GroupRoleRow_roles_in_scope(id, scope, scope_id),
                              {r \in group_roles : /\ r.group_id = id
                                             /\ r.scope = scope
                                             /\ r.scope_id = scope_id})
              /\ AscendingByRoleName(GroupRoleRow_roles_in_scope(id, scope, scope_id))

\* C11: roles(id) lists every grant of the identifier, each once, ascending in
\* (scope, scope_id, role_name); roles_in_scope(id, scope, scope_id) lists
\* exactly the grants of that scope instance ascending in role_name; a call
\* that leaves the grant table as it was leaves both listings as they were.
\* The listing is the one ascending arrangement of the rows, so it does not
\* depend on the order in which the grants were inserted.
C11_RolesSorted ==
    /\ [](UserListingsSorted /\ GroupListingsSorted)
    /\ [][\A id \in Uuids :
            /\ user_roles' = user_roles =>
                  UserRoleRow_roles(id)' = UserRoleRow_roles(id)
            /\ group_roles' = group_roles =>
                  GroupRoleRow_roles(id)' = GroupRoleRow_roles(id)]_vars

\* u1 holds three grants in three scope instances, and the grant inserted
\* last is the first of the listing
C11_Witness ==
    /\ Len(UserRoleRow_roles("u1")) = 3
    /\ last.op = "UserRoleRow::allow"
    /\ last.rows = 1
    /\ last.arg = UserRoleRow_roles("u1")[1]
    /\ UserRoleRow_roles("u1")[1].scope_id # UserRoleRow_roles("u1")[2].scope_id
    /\ UserRoleRow_roles("u1")[2].role_name # UserRoleRow_roles("u1")[3].role_name

\* C12: members(group, page) returns the membership rows of the group in the
\* order in which they were added: with a window the slice of that sequence
\* that starts at offset and has at most limit rows, without one the full
\* sequence.
C12_MembersInsertionOrder ==
    \A g \in Uuids, page \in Pages :
        GroupMembershipRow_members(g, page) = {Window(MembersInserted(g), page)}

----------------------------------------------------------------------------
(* Claims about the log, checked under SpecLog *)

\* C13: the log is append-only: every call leaves every entry in place with
\* its id, action and timestamp; the user reference of an entry changes only
\* in UserRow::delete of that user, which sets it to null and keeps the entry.
C13_LogAppendOnly ==
    [][/\ Len(log') >= Len(log)
       /\ \A i \in 1..Len(log) :
             /\ log'[i].id = log[i].id
             /\ log'[i].action = log[i].action
             /\ log'[i].timestamp = log[i].timestamp
             /\ log'[i].user_id # log[i].user_id =>
                   /\ last'.op = "UserRow::delete"
                   /\ log[i].user_id = last'.arg.user_id
             /\ (last'.op = "UserRow::delete" /\ log[i].user_id = last'.arg.user_id) =>
                   log'[i].user_id = "null"]_vars

\* a user with a log entry was deleted: the entry is kept with a null user
\* reference, next to the entry of the other user
C13_Witness ==
    /\ last.op = "UserRow::delete"
    /\ last.rows = 1
    /\ Len(log) = 2
    /\ log[1].user_id = "null"
    /\ log[2].user_id # "null"
    /\ log[2].user_id # last.arg.user_id

----------------------------------------------------------------------------
(* Claims about the boundary layer, checked under SpecApi *)

\* the client's request was handled in this step
Handled(c) == clients[c].pc = "idle" /\ clients'[c].pc = "done"

\* C14: the leave-group handler answers a group id text that does not parse
\* with BadRequest and changes no row; for a text that parses it answers
\* no-content whether or not the caller was a member, after it the caller
\* is not a member of that group, at most one membership row is gone, and
\* the membership rows of other users and of other groups, and every other
\* relation, are as they were.
C14_LeaveGroup ==
    [][Handled(ApiClient) =>
         LET auth_user == clients'[ApiClient].call.arg.auth_user
             parsed == Uuid_parse_str(clients'[ApiClient].call.arg.group_id)
         IN IF parsed.ok
            THEN /\ clients'[ApiClient].res = NoContent
                 /\ \A i \in 1..Len(group_memberships') :
                        \/ group_memberships'[i].group_id # parsed.value
                        \/ group_memberships'[i].user_id # auth_user
                 /\ Len(group_memberships) - Len(group_memberships') <= 1
                 /\ group_memberships' =
                        SelectSeq(group_memberships,
                                  LAMBDA m : m.group_id # parsed.value \/ m.user_id # auth_user)
                 /\ UNCHANGED <<users, groups, user_roles, group_roles, log>>
            ELSE /\ clients'[ApiClient].res = BadRequest
                 /\ UNCHANGED tables]_vars

\* the caller left a group it was a member of, naming it by a text in urn
\* form, and the membership of the other user is in place
C14_Witness ==
    /\ clients[ApiClient].pc = "done"
    /\ clients[ApiClient].res = NoContent
    /\ clients[ApiClient].call.arg.group_id.form = "urn"
    /\ last.op = "GroupMembershipRow::remove_member"
    /\ last.rows = 1
    /\ last.arg.user_id = clients[ApiClient].call.arg.auth_user
    /\ Len(group_memberships) = 1
    /\ group_memberships[1].group_id = last.arg.group_id

----------------------------------------------------------------------------
(* Claims about the two grant relations, checked under SpecFrame *)

\* C15: user grants and group grants are separate relations without
\* inheritance: GroupRoleRow::allow and GroupRoleRow::revoke leave has_role,
\* roles and roles_in_scope of every user as they were (the members of the
\* group and the user whose Uuid equals the group's included), and
\* UserRoleRow::allow and UserRoleRow::revoke leave the group has_role of
\* every group as it was.
C15_GrantsIndependent ==
    [][/\ last'.op \in {"GroupRoleRow::allow", "GroupRoleRow::revoke"} =>
            \A u \in Uuids :
                /\ UserRoleRow_roles(u)' = UserRoleRow_roles(u)
                /\ \A scope \in Scopes, scope_id \in ScopeIds :
                      /\ UserRoleRow_roles_in_scope(u, scope, scope_id)' =
                             UserRoleRow_roles_in_scope(u, scope, scope_id)
                      /\ \A role \in RoleNames :
                             UserRoleRow_has_role(u, scope, scope_id, role)' =
                                 UserRoleRow_has_role(u, scope, scope_id, role)
       /\ last'.op \in {"UserRoleRow::allow", "UserRoleRow::revoke"} =>
            \A g \in Uuids, scope \in Scopes, scope_id \in ScopeIds, role \in RoleNames :
                GroupRoleRow_has_role(g, scope, scope_id, role)' =
                    GroupRoleRow_has_role(g, scope, scope_id, role)]_vars

\* a role was granted to a group whose member is the user with the group's
\* Uuid: the group has the role, the user does not
C15_Witness ==
    /\ last.op = "GroupRoleRow::allow"
    /\ last.rows = 1
    /\ UserExists(last.arg.group_id)
    /\ GroupMembershipRow_is_member(last.arg.group_id, last.arg.group_id)
    /\ GroupRoleRow_has_role(last.arg.group_id, last.arg.scope, last.arg.scope_id,
                             last.arg.role_name)
    /\ ~UserRoleRow_has_role(last.arg.group_id, last.arg.scope, last.arg.scope_id,
                             last.arg.role_name)
    /\ user_roles # {}

====
